---- MODULE Spec2Model ----
(***************************************************************************)
(* A model of src/vimbaapilib.py.                                          *)
(*                                                                         *)
(* Two specifications share the variables below.                           *)
(*   Spec      one run of main(): the vendor session, get_camera,          *)
(*             setup_camera, get_frame, save_frame, with Python's          *)
(*             exception propagation through the with/try/finally blocks.  *)
(*   SpecFwhm  calls of the library function peak_fwhm on a caller's       *)
(*             frame, with the numpy / scipy.signal calls it makes         *)
(*             computed in exact rational arithmetic.                      *)
(***************************************************************************)
EXTENDS Integers, Sequences, FiniteSets, TLC

VARIABLES
    argv,            \* sys.argv[1:] of the process
    pc,              \* position of the run of main()
    exc,             \* the exception in flight ("none" when there is none)
    cam_id,          \* main's local cam_id (line 197)
    cam,             \* the Camera get_camera returned ("none" before)
    vimbaDepth,      \* open `with Vimba.get_instance()` scopes
    camDepth,        \* open `with cam` scopes
    events,          \* what the run did and printed, in order
    saved,           \* number of frames written by save_frame
    exitCode,        \* the process exit status (-1 while running)
    getCameraCalls,  \* calls of get_camera
    getFrameCalls,   \* calls of get_frame
    frame,           \* the caller's frame array handed to peak_fwhm
    roiDefault,      \* the list object bound to peak_fwhm's default roi
    call             \* the last call of peak_fwhm: its arguments and result

mainVars == <<argv, pc, exc, cam_id, cam, vimbaDepth, camDepth, events,
              saved, exitCode, getCameraCalls, getFrameCalls>>
fwhmVars == <<frame, roiDefault, call>>
vars == <<argv, pc, exc, cam_id, cam, vimbaDepth, camDepth, events,
          saved, exitCode, getCameraCalls, getFrameCalls,
          frame, roiDefault, call>>

(***************************************************************************)
(* Bounds of the model.                                                    *)
(***************************************************************************)
MaxArgs == 2
FrameRows == 2
FrameCols == 5
FrameBits == 1

\* Bits of one stored sample of the frame array (Mono8, uint8).
DtypeBits == 8

(***************************************************************************)
(* The command line and the camera identifiers.                            *)
(***************************************************************************)
CAM_ID == "DEV_000F314EED0D"

ArgTokens == {"-h", "/h", CAM_ID, "camB", ""}

RECURSIVE SeqsUpTo(_, _)
SeqsUpTo(S, n) ==
    IF n = 0 THEN {<<>>}
    ELSE LET shorter == SeqsUpTo(S, n - 1)
         IN  shorter \cup {Append(q, x) : q \in shorter, x \in S}

ArgLists == SeqsUpTo(ArgTokens, MaxArgs)

\* Optional[str]: <<>> is None, <<s>> is the string s.
None == <<>>
Truthy(opt) == opt # None /\ opt[1] # ""

NoExc == <<"none", 0>>

\* abort(): prints the reason, the usage when asked, and raises SystemExit.
Abort(ev, return_code, usage) ==
    [events |-> IF usage THEN ev \o <<"abort_reason", "usage">>
                         ELSE Append(ev, "abort_reason"),
     exc    |-> <<"SystemExit", return_code>>]

\* parse_args(): the help flags are looked for first, then the count.
ParseArgs(args) ==
    IF \E i \in 1..Len(args) : args[i] \in {"/h", "-h"}
    THEN [events |-> <<"usage">>, exc |-> <<"SystemExit", 0>>, id |-> None]
    ELSE IF Len(args) > 1
    THEN [events |-> Abort(<<>>, 2, TRUE).events,
          exc    |-> Abort(<<>>, 2, TRUE).exc, id |-> None]
    ELSE [events |-> <<>>, exc |-> NoExc,
          id |-> IF Len(args) = 0 THEN None ELSE <<args[1]>>]

(***************************************************************************)
(* One run of main().                                                      *)
(***************************************************************************)
FwhmIdle ==
    /\ frame = <<>>
    /\ roiDefault = <<>>
    /\ call = <<>>

Init ==
    /\ argv \in ArgLists
    /\ pc = "start"
    /\ exc = NoExc
    /\ cam_id = None
    /\ cam = "none"
    /\ vimbaDepth = 0
    /\ camDepth = 0
    /\ events = <<>>
    /\ saved = 0
    /\ exitCode = -1
    /\ getCameraCalls = 0
    /\ getFrameCalls = 0
    /\ FwhmIdle

\* main, lines 177-197: the preamble; lookforcameras is False; cam_id is the
\* literal of line 197 (the call of parse_args on line 196 is commented out).
MainStart ==
    /\ pc = "start"
    /\ events' = Append(events, "preamble")
    /\ cam_id' = <<CAM_ID>>
    /\ pc' = "vimba_enter"
    /\ UNCHANGED <<argv, exc, cam, vimbaDepth, camDepth, saved, exitCode,
                   getCameraCalls, getFrameCalls, fwhmVars>>

\* main, line 200: `with Vimba.get_instance() as vimba`; the start-up of the
\* vendor API may raise, and then the body (the try included) never runs.
MainVimbaEnter ==
    /\ pc = "vimba_enter"
    /\ \E ok \in BOOLEAN :
         IF ok
         THEN /\ vimbaDepth' = vimbaDepth + 1
              /\ events' = Append(events, "vimba_open")
              /\ pc' = "try_print"
              /\ exc' = exc
         ELSE /\ exc' = <<"VimbaSystemError", 1>>
              /\ pc' = "toplevel"
              /\ UNCHANGED <<vimbaDepth, events>>
    /\ UNCHANGED <<argv, cam_id, cam, camDepth, saved, exitCode,
                   getCameraCalls, getFrameCalls, fwhmVars>>

\* main, lines 201-202: the try block starts by printing the attempt.
MainTryPrint ==
    /\ pc = "try_print"
    /\ events' = Append(events, "attempt_print")
    /\ pc' = "gc_enter"
    /\ UNCHANGED <<argv, exc, cam_id, cam, vimbaDepth, camDepth, saved,
                   exitCode, getCameraCalls, getFrameCalls, fwhmVars>>

\* get_camera, line 61: its own (nested) vendor session.
GetCameraEnter ==
    /\ pc = "gc_enter"
    /\ getCameraCalls' = getCameraCalls + 1
    /\ vimbaDepth' = vimbaDepth + 1
    /\ events' = Append(events, "gc_vimba_open")
    /\ pc' = "gc_lookup"
    /\ UNCHANGED <<argv, exc, cam_id, cam, camDepth, saved, exitCode,
                   getFrameCalls, fwhmVars>>

\* get_camera, lines 62-74: by identifier when one is given (a truthy
\* string), the first of all cameras otherwise; abort() when there is none.
GetCameraLookup ==
    /\ pc = "gc_lookup"
    /\ \E found \in BOOLEAN :
         IF found
         THEN /\ cam' = IF Truthy(cam_id) THEN cam_id[1] ELSE "first"
              /\ events' = Append(events, "camera_obtained")
              /\ exc' = exc
         ELSE /\ events' = Abort(events, 1, FALSE).events
              /\ exc' = Abort(events, 1, FALSE).exc
              /\ cam' = cam
    /\ pc' = "gc_exit"
    /\ UNCHANGED <<argv, cam_id, vimbaDepth, camDepth, saved, exitCode,
                   getCameraCalls, getFrameCalls, fwhmVars>>

\* get_camera, line 61: __exit__ of its session, on return and on SystemExit.
GetCameraExit ==
    /\ pc = "gc_exit"
    /\ vimbaDepth' = vimbaDepth - 1
    /\ events' = Append(events, "gc_vimba_close")
    /\ pc' = IF exc = NoExc THEN "cam_enter" ELSE "finally"
    /\ UNCHANGED <<argv, exc, cam_id, cam, camDepth, saved, exitCode,
                   getCameraCalls, getFrameCalls, fwhmVars>>

\* main, line 203: `with get_camera(cam_id) as cam`; opening may raise.
MainCamEnter ==
    /\ pc = "cam_enter"
    /\ \E ok \in BOOLEAN :
         IF ok
         THEN /\ camDepth' = camDepth + 1
              /\ events' = Append(events, "cam_open")
              /\ pc' = "setup_enter"
              /\ exc' = exc
         ELSE /\ exc' = <<"VimbaCameraError", 1>>
              /\ pc' = "finally"
              /\ UNCHANGED <<camDepth, events>>
    /\ UNCHANGED <<argv, cam_id, cam, vimbaDepth, saved, exitCode,
                   getCameraCalls, getFrameCalls, fwhmVars>>

\* setup_camera, line 77: `with cam` on the camera main already opened.
SetupCameraEnter ==
    /\ pc = "setup_enter"
    /\ camDepth' = camDepth + 1
    /\ events' = Append(events, "setup_cam_open")
    /\ pc' = "setup_run"
    /\ UNCHANGED <<argv, exc, cam_id, cam, vimbaDepth, saved, exitCode,
                   getCameraCalls, getFrameCalls, fwhmVars>>

\* setup_camera, lines 79-86: GVSPAdjustPacketSize.run(); AttributeError and
\* VimbaFeatureError are swallowed, anything else propagates.
SetupCameraRun ==
    /\ pc = "setup_run"
    /\ \E outcome \in {"started", "feature_error", "unexpected"} :
         CASE outcome = "started" ->
                /\ pc' = "setup_wait"
                /\ UNCHANGED <<exc, events>>
           [] outcome = "feature_error" ->
                /\ pc' = "setup_exit"
                /\ events' = Append(events, "packet_size_setup")
                /\ exc' = exc
           [] outcome = "unexpected" ->
                /\ pc' = "setup_exit"
                /\ exc' = <<"Exception", 1>>
                /\ events' = events
    /\ UNCHANGED <<argv, cam_id, cam, vimbaDepth, camDepth, saved, exitCode,
                   getCameraCalls, getFrameCalls, fwhmVars>>

\* setup_camera, lines 82-83: the busy wait on is_done().
SetupCameraWait ==
    /\ pc = "setup_wait"
    /\ \E done \in BOOLEAN :
         IF done
         THEN /\ pc' = "setup_exit"
              /\ events' = Append(events, "packet_size_setup")
         ELSE UNCHANGED <<pc, events>>
    /\ UNCHANGED <<argv, exc, cam_id, cam, vimbaDepth, camDepth, saved,
                   exitCode, getCameraCalls, getFrameCalls, fwhmVars>>

\* setup_camera, line 77: __exit__ of its `with cam`.
SetupCameraExit ==
    /\ pc = "setup_exit"
    /\ camDepth' = camDepth - 1
    /\ events' = Append(events, "setup_cam_close")
    /\ pc' = IF exc = NoExc THEN "get_frame" ELSE "cam_exit"
    /\ UNCHANGED <<argv, exc, cam_id, cam, vimbaDepth, saved, exitCode,
                   getCameraCalls, getFrameCalls, fwhmVars>>

\* A timeout answered by asking the camera again.
GetFrameRetry ==
    /\ pc = "get_frame"
    /\ getFrameCalls' = getFrameCalls + 1
    /\ \E ok \in BOOLEAN :
         IF ok
         THEN /\ events' = Append(events, "frame_captured")
              /\ pc' = "save_frame"
         ELSE UNCHANGED <<events, pc>>
    /\ UNCHANGED <<argv, exc, cam_id, cam, vimbaDepth, camDepth, saved, exitCode,
                   getCameraCalls, fwhmVars>>

\* get_frame, lines 88-105: one cam.get_frame(timeout_ms=2000); a timeout
\* raises VimbaTimeout, which nothing catches.
GetFrame ==
    /\ pc = "get_frame"
    /\ getFrameCalls' = getFrameCalls + 1
    /\ \E ok \in BOOLEAN :
         IF ok
         THEN /\ events' = Append(events, "frame_captured")
              /\ pc' = "save_frame"
              /\ exc' = exc
         ELSE /\ exc' = <<"VimbaTimeout", 1>>
              /\ pc' = "cam_exit"
              /\ events' = events
    /\ UNCHANGED <<argv, cam_id, cam, vimbaDepth, camDepth, saved, exitCode,
                   getCameraCalls, fwhmVars>>

\* save_frame, lines 107-129: prints, then np.save, which may raise.
SaveFrame ==
    /\ pc = "save_frame"
    /\ \E ok \in BOOLEAN :
         IF ok
         THEN /\ saved' = saved + 1
              /\ events' = events \o <<"save_print", "frame_saved">>
              /\ exc' = exc
         ELSE /\ exc' = <<"OSError", 1>>
              /\ events' = Append(events, "save_print")
              /\ saved' = saved
    /\ pc' = "cam_exit"
    /\ UNCHANGED <<argv, cam_id, cam, vimbaDepth, camDepth, exitCode,
                   getCameraCalls, getFrameCalls, fwhmVars>>

\* The camera closed on the way out of the body only when nothing was raised.
MainCamExitLeak ==
    /\ pc = "cam_exit"
    /\ camDepth' = IF exc = NoExc THEN camDepth - 1 ELSE camDepth
    /\ events' = IF exc = NoExc THEN Append(events, "cam_close") ELSE events
    /\ pc' = "finally"
    /\ UNCHANGED <<argv, exc, cam_id, cam, vimbaDepth, saved, exitCode,
                   getCameraCalls, getFrameCalls, fwhmVars>>

\* main, line 203: __exit__ of `with ... as cam`.
MainCamExit ==
    /\ pc = "cam_exit"
    /\ camDepth' = camDepth - 1
    /\ events' = Append(events, "cam_close")
    /\ pc' = "finally"
    /\ UNCHANGED <<argv, exc, cam_id, cam, vimbaDepth, saved, exitCode,
                   getCameraCalls, getFrameCalls, fwhmVars>>

\* 'exit' printed by an else clause: only when the try block raised nothing.
MainFinallyOnSuccess ==
    /\ pc = "finally"
    /\ events' = IF exc = NoExc THEN Append(events, "exit_printed") ELSE events
    /\ pc' = "vimba_exit"
    /\ UNCHANGED <<argv, exc, cam_id, cam, vimbaDepth, camDepth, saved,
                   exitCode, getCameraCalls, getFrameCalls, fwhmVars>>

\* main, lines 216-217: the finally clause prints 'exit'.
MainFinally ==
    /\ pc = "finally"
    /\ events' = Append(events, "exit_printed")
    /\ pc' = "vimba_exit"
    /\ UNCHANGED <<argv, exc, cam_id, cam, vimbaDepth, camDepth, saved,
                   exitCode, getCameraCalls, getFrameCalls, fwhmVars>>

\* main, line 200: __exit__ of the vendor session.
MainVimbaExit ==
    /\ pc = "vimba_exit"
    /\ vimbaDepth' = vimbaDepth - 1
    /\ events' = Append(events, "vimba_close")
    /\ pc' = "toplevel"
    /\ UNCHANGED <<argv, exc, cam_id, cam, camDepth, saved, exitCode,
                   getCameraCalls, getFrameCalls, fwhmVars>>

\* lines 223-224: the interpreter ends the process: status 0 on return, the
\* code of SystemExit, or a printed traceback and status 1.
TopLevel ==
    /\ pc = "toplevel"
    /\ exitCode' = IF exc = NoExc THEN 0 ELSE exc[2]
    /\ events' = IF exc[1] \in {"none", "SystemExit"} THEN events
                 ELSE Append(events, "traceback")
    /\ pc' = "done"
    /\ UNCHANGED <<argv, exc, cam_id, cam, vimbaDepth, camDepth, saved,
                   getCameraCalls, getFrameCalls, fwhmVars>>

Next ==
    \/ MainStart
    \/ MainVimbaEnter
    \/ MainTryPrint
    \/ GetCameraEnter
    \/ GetCameraLookup
    \/ GetCameraExit
    \/ MainCamEnter
    \/ SetupCameraEnter
    \/ SetupCameraRun
    \/ SetupCameraWait
    \/ SetupCameraExit
    \/ GetFrame
    \/ SaveFrame
    \/ MainCamExit
    \/ MainFinally
    \/ MainVimbaExit
    \/ TopLevel

Spec == Init /\ [][Next]_vars

(***************************************************************************)
(* peak_fwhm.  A frame is a sequence of rows, a row a sequence of samples. *)
(* Python's indices start at 0: element i of an array x is x[i + 1] here.  *)
(* Means, prominences, heights and widths are exact rationals; an array of *)
(* means is kept as its numerators (the column sums) over one denominator  *)
(* (the number of rows averaged), and 0 rows give NaN in every column.     *)
(***************************************************************************)
Min(a, b) == IF a < b THEN a ELSE b
Max(a, b) == IF a < b THEN b ELSE a

NRows(f) == Len(f)
NCols(f) == IF Len(f) = 0 THEN 0 ELSE Len(f[1])

\* a[start:stop] on an axis of n entries: the first index taken and the end.
PySlice(n, start, stop) ==
    LET norm(i) == IF i < 0 THEN Max(i + n, 0) ELSE Min(i, n)
        lo == norm(start)
        hi == norm(stop)
    IN  <<lo, Max(lo, hi)>>

\* The rows taken up to and including row roi[1].
CropInclusive(f, roi) ==
    LET rs == PySlice(NRows(f), roi[1], roi[2] + 1)
        cs == PySlice(NCols(f), roi[3], roi[4])
    IN  [ncols |-> cs[2] - cs[1],
         rows  |-> [r \in 1..(rs[2] - rs[1]) |->
                      [c \in 1..(cs[2] - cs[1]) |-> f[rs[1] + r][cs[1] + c]]]]

\* line 147: frame_ndarray[roi[0]:roi[1], roi[2]:roi[3]]
Crop(f, roi) ==
    LET rs == PySlice(NRows(f), roi[1], roi[2])
        cs == PySlice(NCols(f), roi[3], roi[4])
    IN  [ncols |-> cs[2] - cs[1],
         rows  |-> [r \in 1..(rs[2] - rs[1]) |->
                      [c \in 1..(cs[2] - cs[1]) |-> f[rs[1] + r][cs[1] + c]]]]

\* 2**pixbit - s: the largest value taken one too high.
InvertSampleOffByOne(s, pixbit) == ((2^pixbit) - s) % (2^DtypeBits)

\* line 150, one sample: (2**pixbit - 1) - s in the array's unsigned type.
InvertSample(s, pixbit) == ((2^pixbit - 1) - s) % (2^DtypeBits)

\* lines 149-150: the inverted copy when invert is set, the crop otherwise.
Invert(a, pixbit, invert) ==
    IF invert
    THEN [ncols |-> a.ncols,
          rows  |-> [r \in 1..Len(a.rows) |->
                       [c \in 1..a.ncols |-> InvertSample(a.rows[r][c], pixbit)]]]
    ELSE a

RECURSIVE ColSum(_, _, _)
ColSum(rows, c, r) ==
    IF r = 0 THEN 0 ELSE rows[r][c] + ColSum(rows, c, r - 1)

\* line 153: np.mean(frame_ndarray, axis=0)
Mean0(a) ==
    [num |-> [c \in 1..a.ncols |-> ColSum(a.rows, c, Len(a.rows))],
     den |-> Len(a.rows)]

\* scipy.signal._peak_finding_utils._local_maxima_1d: the midpoints of the
\* plateaus that rise on the left and fall on the right; never an end sample.
RECURSIVE PlateauEnd(_, _, _)
PlateauEnd(x, i, ahead) ==
    IF ahead < Len(x) - 1 /\ x[ahead + 1] = x[i + 1]
    THEN PlateauEnd(x, i, ahead + 1)
    ELSE ahead

RECURSIVE LocalMaxima(_, _)
LocalMaxima(x, i) ==
    IF ~(i < Len(x) - 1) THEN <<>>
    ELSE IF x[i] < x[i + 1]
         THEN LET ahead == PlateauEnd(x, i, i + 1)
              IN  IF x[ahead + 1] < x[i + 1]
                  THEN <<(i + (ahead - 1)) \div 2>> \o LocalMaxima(x, ahead + 1)
                  ELSE LocalMaxima(x, i + 1)
         ELSE LocalMaxima(x, i + 1)

\* scipy.signal.peak_prominences, one side: walk from the peak while the
\* samples do not exceed it; <<lowest value met, where it was first met>>.
RECURSIVE WalkBase(_, _, _, _, _)
WalkBase(x, peak, i, dir, best) ==
    IF i < 0 \/ i > Len(x) - 1 \/ x[i + 1] > x[peak + 1] THEN best
    ELSE WalkBase(x, peak, i + dir, dir,
                  IF x[i + 1] < best[1] THEN <<x[i + 1], i>> ELSE best)

Prominence(x, peak) ==
    LET l == WalkBase(x, peak, peak, -1, <<x[peak + 1], peak>>)
        r == WalkBase(x, peak, peak, 1, <<x[peak + 1], peak>>)
    IN  [prominence |-> x[peak + 1] - Max(l[1], r[1]),
         left_base  |-> l[2],
         right_base |-> r[2]]

\* pm = <<n, d>> is the number n/d; a prominence p over the denominator den.
AtLeast(p, den, pm) == pm[1] * den <= p * pm[2]

\* line 155: find_peaks(frame_lineout, prominence=(prominence_min, None)).
FindPeaks(lineout, pm) ==
    LET x      == lineout.num
        cand   == IF lineout.den = 0 THEN <<>> ELSE LocalMaxima(x, 1)
        prom   == [k \in 1..Len(cand) |-> Prominence(x, cand[k])]
        keep   == {k \in 1..Len(cand) :
                     AtLeast(prom[k].prominence, lineout.den, pm)}
        pick(q) == SelectSeq(q, LAMBDA e : e[1] \in keep)
        tagged == pick([k \in 1..Len(cand) |-> <<k, cand[k], prom[k]>>])
    IN  [peaks       |-> [k \in 1..Len(tagged) |-> tagged[k][2]],
         prominences |-> [k \in 1..Len(tagged) |-> tagged[k][3].prominence],
         left_bases  |-> [k \in 1..Len(tagged) |-> tagged[k][3].left_base],
         right_bases |-> [k \in 1..Len(tagged) |-> tagged[k][3].right_base]]

\* numpy's argmax: the first position (from 0) of the largest entry.
ArgMax(q) ==
    (CHOOSE k \in 1..Len(q) :
        /\ \A j \in 1..Len(q) : q[j] <= q[k]
        /\ \A j \in 1..(k - 1) : q[j] < q[k]) - 1

\* The first of several peaks taken, whatever the prominences.
SelectPeakFirst(found) ==
    IF Len(found.peaks) > 1
    THEN [peakmax |-> <<found.peaks[1]>>, warned |-> TRUE, raised |-> FALSE]
    ELSE [peakmax |-> found.peaks, warned |-> FALSE, raised |-> FALSE]

\* The argmax taken whenever there is not exactly one peak: numpy's argmax
\* of an empty array raises ValueError.
SelectPeakUnlessOne(found) ==
    IF Len(found.peaks) = 0
    THEN [peakmax |-> <<>>, warned |-> FALSE, raised |-> TRUE]
    ELSE IF Len(found.peaks) > 1
    THEN [peakmax |-> <<found.peaks[ArgMax(found.prominences) + 1]>>,
          warned  |-> TRUE, raised |-> FALSE]
    ELSE [peakmax |-> found.peaks, warned |-> FALSE, raised |-> FALSE]

\* lines 158-164: the most prominent of several peaks, with the warning;
\* nothing here raises.
SelectPeak(found) ==
    IF Len(found.peaks) > 1
    THEN [peakmax |-> <<found.peaks[ArgMax(found.prominences) + 1]>>,
          warned  |-> TRUE, raised |-> FALSE]
    ELSE [peakmax |-> found.peaks, warned |-> FALSE, raised |-> FALSE]

\* scipy.signal.peak_widths, one side: walk from the peak towards the base
\* while the signal is above the height h2/2; where the walk stops.
RECURSIVE WalkCross(_, _, _, _, _)
WalkCross(x, h2, i, stop, dir) ==
    IF i # stop /\ h2 < 2 * x[i + 1]
    THEN WalkCross(x, h2, i + dir, stop, dir)
    ELSE i

\* line 167: peak_widths(frame_lineout, peakmax, rel_height=0.5), one peak.
\* height is h2 / (2 den); a crossing is at + frac[1] / frac[2] samples
\* inwards of it; width is width[1] / width[2] samples.
Width(x, peak) ==
    LET pr == Prominence(x, peak)
        h2 == 2 * x[peak + 1] - pr.prominence
        il == WalkCross(x, h2, peak, pr.left_base, -1)
        ir == WalkCross(x, h2, peak, pr.right_base, 1)
        fl == IF 2 * x[il + 1] < h2
              THEN <<h2 - 2 * x[il + 1], 2 * (x[il + 2] - x[il + 1])>>
              ELSE <<0, 1>>
        fr == IF 2 * x[ir + 1] < h2
              THEN <<h2 - 2 * x[ir + 1], 2 * (x[ir] - x[ir + 1])>>
              ELSE <<0, 1>>
    IN  [height2  |-> h2,
         left_ip  |-> [at |-> il, frac |-> fl],
         right_ip |-> [at |-> ir, frac |-> fr],
         width    |-> <<(ir - il) * fl[2] * fr[2] - fr[1] * fl[2] - fl[1] * fr[2],
                        fl[2] * fr[2]>>]

PeakWidths(lineout, peakmax) ==
    [k \in 1..Len(peakmax) |-> Width(lineout.num, peakmax[k])]

\* peak_fwhm, lines 147-169: what one call returns and prints.
PeakFwhm(f, pm, pixbit, invert, roi) ==
    LET lineout == Mean0(Invert(Crop(f, roi), pixbit, invert))
        found   == FindPeaks(lineout, pm)
        sel     == SelectPeak(found)
    IN  [peakwidth     |-> PeakWidths(lineout, sel.peakmax),
         peakmax       |-> sel.peakmax,
         peaks_props   |-> [prominences |-> found.prominences,
                            left_bases  |-> found.left_bases,
                            right_bases |-> found.right_bases],
         frame_lineout |-> lineout,
         peaks         |-> found.peaks,
         warned        |-> sel.warned,
         raised        |-> sel.raised]

\* The inversion written through the view of line 147 into the caller's array.
FrameAfterInPlace(f, pixbit, invert, roi) ==
    LET rs == PySlice(NRows(f), roi[1], roi[2])
        cs == PySlice(NCols(f), roi[3], roi[4])
    IN  IF invert
        THEN [r \in 1..NRows(f) |-> [c \in 1..NCols(f) |->
                IF rs[1] < r /\ r <= rs[2] /\ cs[1] < c /\ c <= cs[2]
                THEN InvertSample(f[r][c], pixbit) ELSE f[r][c]]]
        ELSE f

\* lines 147-150: the name frame_ndarray is rebound to a view and then to a
\* fresh array; the caller's array is what it was.
FrameAfter(f, pixbit, invert, roi) == f

\* line 132: the default list is read (lines 147) and never written.
RoiDefaultAfter(rd) == rd

(***************************************************************************)
(* Calls of peak_fwhm by a client of the library.                          *)
(***************************************************************************)
Samples == 0..(2^FrameBits - 1)

Frames == [1..FrameRows -> [1..FrameCols -> Samples]] \cup {<<>>}

\* roi = [0, 1215, 0, 1935], the default of line 132
ROI_DEFAULT == <<0, 1215, 0, 1935>>

RoiValid(f, roi) ==
    /\ 0 <= roi[1] /\ roi[1] < roi[2] /\ roi[2] <= NRows(f)
    /\ 0 <= roi[3] /\ roi[3] < roi[4] /\ roi[4] <= NCols(f)

ValidRois(f) ==
    {roi \in (0..NRows(f)) \X (0..NRows(f)) \X (0..NCols(f)) \X (0..NCols(f)) :
        RoiValid(f, roi)}

MalformedRois(f) ==
    {<<1, 1, 0, NCols(f)>>, <<0, NRows(f), 3, 2>>, <<0, NRows(f) + 1, 0, NCols(f)>>,
     <<-1, NRows(f), 0, NCols(f)>>, <<0, NRows(f), 1, NCols(f) + 1>>}

\* <<>> stands for a call that leaves roi out.
RoiArgs(f) == ValidRois(f) \cup MalformedRois(f) \cup {<<>>}

\* prominence_min as a rational <<n, d>>
PromMins == {<<1, 2>>, <<1, 1>>, <<0, 1>>}

PixBits == {FrameBits, DtypeBits}

\* pixbit = 8, the default of line 132
PIXBIT_DEFAULT == DtypeBits

\* <<invert, pixbit>>: a call that does not invert leaves pixbit out.
InvertArgs == {<<FALSE, PIXBIT_DEFAULT>>} \cup ({TRUE} \X PixBits)

NoCall ==
    [pm |-> <<0, 1>>, pixbit |-> 0, invert |-> FALSE, roiArg |-> <<>>,
     roi |-> <<>>, out |-> <<>>]

InitFwhm ==
    /\ frame \in Frames
    /\ roiDefault = ROI_DEFAULT
    /\ call = NoCall
    /\ argv = <<>>
    /\ pc = "library"
    /\ exc = NoExc
    /\ cam_id = None
    /\ cam = "none"
    /\ vimbaDepth = 0
    /\ camDepth = 0
    /\ events = <<>>
    /\ saved = 0
    /\ exitCode = -1
    /\ getCameraCalls = 0
    /\ getFrameCalls = 0

DoCall(pm, pixbit, invert, roiArg) ==
    LET roi == IF roiArg = <<>> THEN roiDefault ELSE roiArg
    IN  /\ call' = [pm |-> pm, pixbit |-> pixbit, invert |-> invert,
                    roiArg |-> roiArg, roi |-> roi,
                    out |-> PeakFwhm(frame, pm, pixbit, invert, roi)]
        /\ frame' = FrameAfter(frame, pixbit, invert, roi)
        /\ roiDefault' = RoiDefaultAfter(roiDefault)
        /\ UNCHANGED mainVars

\* a first call of peak_fwhm, with any arguments
CallPeakFwhm ==
    /\ call = NoCall
    /\ \E pm \in PromMins, inv \in InvertArgs, roiArg \in RoiArgs(frame) :
         DoCall(pm, inv[2], inv[1], roiArg)

\* the same call again, on the same array
RepeatPeakFwhm ==
    /\ call # NoCall
    /\ DoCall(call.pm, call.pixbit, call.invert, call.roiArg)

NextFwhm ==
    \/ CallPeakFwhm
    \/ RepeatPeakFwhm

SpecFwhm == InitFwhm /\ [][NextFwhm]_vars

(***************************************************************************)
(* Properties of peak_fwhm, checked under SpecFwhm.                        *)
(***************************************************************************)
Called == call # NoCall

WellFormed ==
    /\ frame # <<>>
    /\ RoiValid(frame, call.roi)
    /\ call.pm[1] > 0

\* The sum over rows lo <= r < hi (from 0) of column c (from 0) of f, each
\* sample taken as the analysis takes it.
RECURSIVE RoiColSum(_, _, _, _, _, _)
RoiColSum(f, lo, hi, c, pixbit, invert) ==
    IF hi <= lo THEN 0
    ELSE (IF invert THEN (2^pixbit - 1) - f[hi][c + 1] ELSE f[hi][c + 1])
         + RoiColSum(f, lo, hi - 1, c, pixbit, invert)

\* the frame with every sample outside the region set to v
Outside(f, roi, v) ==
    [r \in 1..NRows(f) |-> [c \in 1..NCols(f) |->
        IF /\ roi[1] < r /\ r <= roi[2]
           /\ roi[3] < c /\ c <= roi[4]
        THEN f[r][c] ELSE v]]

\* x is b everywhere but on the columns k1..k2 (from 1, strictly inside),
\* where it is b + d.
Bump(x, b, d, k1, k2) ==
    /\ 1 < k1 /\ k1 <= k2 /\ k2 < Len(x)
    /\ \A j \in 1..Len(x) : x[j] = IF k1 <= j /\ j <= k2 THEN b + d ELSE b

IsFlat(x) == \A i, j \in 1..Len(x) : x[i] = x[j]

\* C1: when detection yields several peaks, peak_fwhm returns exactly one
\* index, that of a candidate whose prominence is the largest of all, and
\* prints the warning; when it yields one, that one is returned, unwarned.
C1_MostProminent ==
    Called =>
      LET o == call.out IN
        /\ Len(o.peaks) > 1 =>
             /\ Len(o.peakmax) = 1
             /\ o.warned
             /\ \E k \in 1..Len(o.peaks) :
                  /\ o.peaks[k] = o.peakmax[1]
                  /\ \A j \in 1..Len(o.peaks) :
                       o.peaks_props.prominences[j] <= o.peaks_props.prominences[k]
        /\ Len(o.peaks) = 1 => (o.peakmax = o.peaks /\ ~o.warned)

C1_Witness ==
    /\ Called
    /\ WellFormed
    /\ Len(call.out.peaks) = 2
    /\ call.out.peaks_props.prominences[1] < call.out.peaks_props.prominences[2]
    /\ call.out.peakmax = <<call.out.peaks[2]>>
    /\ call.out.warned

\* C2: with no candidate of the required prominence, and so for every flat
\* lineout whatever prominence_min is, peak_fwhm returns without raising an
\* empty index list and an empty width result.
C2_NoPeak ==
    Called =>
      LET o == call.out IN
        /\ (o.frame_lineout.den > 0 /\ IsFlat(o.frame_lineout.num))
             => Len(o.peaks) = 0
        /\ Len(o.peaks) = 0 =>
             (~o.raised /\ o.peakmax = <<>> /\ o.peakwidth = <<>>)

C2_Witness ==
    /\ Called
    /\ WellFormed
    /\ Len(call.out.frame_lineout.num) = FrameCols
    /\ IsFlat(call.out.frame_lineout.num)
    /\ call.out.frame_lineout.num[1] > 0
    /\ call.out.peakmax = <<>>
    /\ call.out.peakwidth = <<>>

C9_FailFast ==
    (Called /\ ~WellFormed) => call.out.raised

(***************************************************************************)
(* Properties of the run of main(), checked under Spec.                    *)
(***************************************************************************)
Occurred(e) == \E i \in 1..Len(events) : events[i] = e

IndexOf(e) == CHOOSE i \in 1..Len(events) : events[i] = e /\ \A j \in 1..(i - 1) : events[j] # e

\* a and b, when both occurred, occurred in this order
Before(a, b) == (Occurred(a) /\ Occurred(b)) => IndexOf(a) < IndexOf(b)

InOrder(names) == \A i \in 1..(Len(names) - 1) : Before(names[i], names[i + 1])

HelpAsked == \E i \in 1..Len(argv) : argv[i] \in {"-h", "/h"}

\* C3: when the run has ended, however it ended, no vendor session and no
\* camera session opened by main, get_camera or setup_camera is still open.
C3_Released ==
    /\ vimbaDepth >= 0
    /\ camDepth >= 0
    /\ pc = "done" => (vimbaDepth = 0 /\ camDepth = 0)

C3_Witness ==
    /\ pc = "done"
    /\ exc[1] = "VimbaTimeout"
    /\ Occurred("vimba_open") /\ Occurred("gc_vimba_open")
    /\ Occurred("cam_open") /\ Occurred("setup_cam_open")
    /\ vimbaDepth = 0 /\ camDepth = 0

\* C4: the run ends with status 0 and the usage when an argument is -h or
\* /h, with status 2 and the usage when there is more than one argument,
\* uses the one argument as the camera identifier, and with no argument
\* chooses no identifier and takes the first camera.
C4_CliOutcome ==
    /\ pc = "done" =>
         /\ HelpAsked => (exitCode = 0 /\ Occurred("usage"))
         /\ (~HelpAsked /\ Len(argv) > 1) => (exitCode = 2 /\ Occurred("usage"))
    /\ pc # "start" =>
         /\ (~HelpAsked /\ Len(argv) = 1) => cam_id = <<argv[1]>>
         /\ Len(argv) = 0 => (cam_id = None /\ (cam # "none" => cam = "first"))

\* C5: get_camera and get_frame are each attempted at most once, and a run
\* in which the camera was not found, could not be opened or timed out ends
\* with a printed reason, a non-zero status and no frame saved.
C5_Fatal ==
    /\ getCameraCalls <= 1
    /\ getFrameCalls <= 1
    /\ exc # NoExc => saved = 0
    /\ (pc = "done" /\ exc[1] \in {"SystemExit", "VimbaCameraError", "VimbaTimeout"})
         => /\ exitCode # 0
            /\ Occurred("abort_reason") \/ Occurred("traceback")

C5_Witness ==
    /\ pc = "done"
    /\ exc[1] = "SystemExit"
    /\ Occurred("abort_reason")
    /\ getCameraCalls = 1
    /\ getFrameCalls = 0
    /\ exitCode = 1

SaveGuarded ==
    /\ saved <= 1
    /\ pc = "save_frame" =>
         /\ Occurred("frame_captured")
         /\ exc = NoExc
         /\ vimbaDepth >= 1
         /\ camDepth >= 1
    /\ Occurred("frame_saved") => Occurred("frame_captured")

\* C10 as claimed: the sessions are closed before 'exit' is printed, and
\* 'exit' is printed on every exit path.
C10_OrderClaimed ==
    /\ InOrder(<<"vimba_open", "camera_obtained", "cam_open", "packet_size_setup",
                 "frame_captured", "frame_saved", "cam_close", "exit_printed">>)
    /\ Before("vimba_close", "exit_printed")
    /\ SaveGuarded
    /\ pc = "done" => Occurred("exit_printed")

\* C10 as amended: the events of a run occur in the order vendor session
\* opened, camera obtained, camera session opened, packet-size setup, frame
\* captured, frame saved, camera session closed, 'exit' printed, vendor
\* session closed (all of them in a run without failure); save_frame is
\* invoked at most once, after get_frame returned and with both sessions
\* open; 'exit' is printed on every exit path that opened the vendor session.
C10_Order ==
    /\ InOrder(<<"vimba_open", "camera_obtained", "cam_open", "packet_size_setup",
                 "frame_captured", "frame_saved", "cam_close", "exit_printed",
                 "vimba_close">>)
    /\ SaveGuarded
    /\ (pc = "done" /\ Occurred("vimba_open")) => Occurred("exit_printed")
    /\ (pc = "done" /\ exc = NoExc) =>
         \A e \in {"vimba_open", "camera_obtained", "cam_open", "packet_size_setup",
                   "frame_captured", "frame_saved", "cam_close", "exit_printed",
                   "vimba_close"} : Occurred(e)

C10_Witness ==
    /\ pc = "done"
    /\ exc = NoExc
    /\ saved = 1
    /\ exitCode = 0
    /\ Occurred("exit_printed")
    /\ IndexOf("exit_printed") < IndexOf("vimba_close")

====
